---- MODULE Spec2Model ----
(***************************************************************************)
(* A model of the AQI calculator (aqi_for_concentration, aqi_category,     *)
(* compute_aqi_for_pollutants, the demo's overall index) and of the gauge  *)
(* widget AQIMeterApp.                                                     *)
(*                                                                         *)
(* Concentrations are held in hundredths of a ug/m3: the float 35.0 is the *)
(* integer 3500, the breakpoint 12.1 is 1210.  On this grid the float      *)
(* comparisons of the source are exact integer comparisons.  An optional   *)
(* integer (Optional[int]) is None == << >> or Some(v) == << v >>.         *)
(***************************************************************************)
EXTENDS Integers, Sequences, FiniteSets, TLC

VARIABLES
    table,        \* calculator session: which breakpoint table is passed
    conc,         \* calculator session: the concentration C, in hundredths
    result,       \* calculator session: the value returned for C
    seen,         \* calculator session: greatest index returned so far for a lower C
    pc,           \* calculator session: "call" before the call, "done" after it
    aqi,          \* category check: the argument of aqi_category
    cat,          \* category check: the band returned
    cpc,          \* category check: "call" / "done"
    concs,        \* demo: the input mapping pollutant -> concentration
    aqi_results,  \* demo: the mapping returned by compute_aqi_for_pollutants
    overall,      \* demo: the overall AQI printed, None when none is printed
    dpc,          \* demo: "start", "computed", "overall", "none"
    auto_var,     \* gauge: the 'Auto update' BooleanVar
    pending,      \* gauge: number of root.after(5000, update_meter) callbacks waiting
    value_label,  \* gauge: the AQI shown by value_label
    cat_label     \* gauge: the category shown by cat_label

calcVars == <<table, conc, result, seen, pc>>
catVars == <<aqi, cat, cpc>>
demoVars == <<concs, aqi_results, overall, dpc>>
guiVars == <<auto_var, pending, value_label, cat_label>>
vars == <<calcVars, catVars, demoVars, guiVars>>

\* Bounds of the model.
BelowZero == 50        \* the grid starts this many hundredths below 0
MaxConc == 60500       \* the grid ends here (605.00), above both tables' top breakpoint
MaxIndex == 600        \* aqi_category is called on 0 .. MaxIndex
MaxReadings == 3       \* the demo's input mapping has at most this many keys
MaxPending == 3        \* the gauge is followed up to this many waiting callbacks
RawOver == 20          \* the AQI source returns -RawOver .. 500 + RawOver

None == << >>
Some(v) == << v >>
IsInt(o) == o # None
Val(o) == o[1]

Grid == (0 - BelowZero)..MaxConc

----------------------------------------------------------------------------
\* The breakpoint tables, rows (BP_lo, BP_hi, I_lo, I_hi), BP in hundredths.

PM25_overlapping ==
    << <<0, 1200, 0, 50>>, <<1200, 3540, 51, 100>>, <<3550, 5540, 101, 150>>,
       <<5550, 15040, 151, 200>>, <<15050, 25040, 201, 300>>,
       <<25050, 35040, 301, 400>>, <<35050, 50040, 401, 500>> >>

PM25_BREAKPOINTS ==
    << <<0, 1200, 0, 50>>, <<1210, 3540, 51, 100>>, <<3550, 5540, 101, 150>>,
       <<5550, 15040, 151, 200>>, <<15050, 25040, 201, 300>>,
       <<25050, 35040, 301, 400>>, <<35050, 50040, 401, 500>> >>

PM10_shifted ==
    << <<0, 5400, 0, 50>>, <<5400, 15400, 51, 100>>, <<15500, 25400, 101, 150>>,
       <<25500, 35400, 151, 200>>, <<35500, 42400, 201, 300>>,
       <<42500, 50400, 301, 400>>, <<50500, 60400, 401, 500>> >>

PM10_BREAKPOINTS ==
    << <<0, 5400, 0, 50>>, <<5500, 15400, 51, 100>>, <<15500, 25400, 101, 150>>,
       <<25500, 35400, 151, 200>>, <<35500, 42400, 201, 300>>,
       <<42500, 50400, 301, 400>>, <<50500, 60400, 401, 500>> >>

Tables == {"pm25", "pm10"}
TableOf(t) == IF t = "pm25" THEN PM25_BREAKPOINTS ELSE PM10_BREAKPOINTS

\* The expression of the source is evaluated in IEEE-754 binary64 and then
\* rounded by Python's round (ties to even).  It differs from the exact
\* rational value only by rounding error, which decides the result only
\* where the exact value is a tie k + 1/2.  On the hundredths grid these
\* are the ties where the binary64 value falls above, respectively below,
\* the exact one (rows of <<BP_lo, BP_hi, C>>).
Binary64Above ==
    { <<0, 1200, 108>>, <<0, 1200, 156>>, <<0, 1200, 348>>, <<0, 1200, 444>>,
      <<0, 1200, 540>>, <<0, 1200, 636>>, <<0, 1200, 732>>, <<0, 1200, 924>>,
      <<0, 1200, 972>>, <<0, 1200, 1116>>, <<0, 1200, 1164>>,
      <<25050, 35040, 34485>> }
Binary64Below == { <<0, 5400, 1674>> }

PyRound_ceil(num, den, lean) ==
    IF num % den = 0 THEN num \div den ELSE (num \div den) + 1

\* int(round(num / den)) for num >= 0, den > 0, with the tie decided by
\* `lean`: 1 the float lies above the tie, -1 below, 0 exactly on it.
PyRound(num, den, lean) ==
    LET q == num \div den
        r == num % den
    IN  IF 2 * r > den THEN q + 1
        ELSE IF 2 * r < den THEN q
        ELSE IF lean = 1 THEN q + 1
        ELSE IF lean = -1 THEN q
        ELSE IF q % 2 = 0 THEN q ELSE q + 1

Lean(row, C) ==
    IF <<row[1], row[2], C>> \in Binary64Above THEN 1
    ELSE IF <<row[1], row[2], C>> \in Binary64Below THEN -1
    ELSE 0

Interpolate_noOffset(row, C) ==
    PyRound((row[4] - row[3]) * (C - row[1]), row[2] - row[1], Lean(row, C))

\* (i_hi - i_lo) / (bp_hi - bp_lo) * (C - bp_lo) + i_lo, rounded.
Interpolate(row, C) ==
    LET bp_lo == row[1]
        bp_hi == row[2]
        i_lo == row[3]
        i_hi == row[4]
    IN  PyRound((i_hi - i_lo) * (C - bp_lo) + i_lo * (bp_hi - bp_lo),
                bp_hi - bp_lo, Lean(row, C))

Matches_strict(row, C) == row[1] < C /\ C <= row[2]

Matches(row, C) == row[1] <= C /\ C <= row[2]

RECURSIVE Scan(_, _, _)
Scan(C, breakpoints, i) ==
    IF i > Len(breakpoints) THEN None
    ELSE IF Matches(breakpoints[i], C) THEN Some(Interpolate(breakpoints[i], C))
    ELSE Scan(C, breakpoints, i + 1)

aqi_for_concentration(C, breakpoints) == Scan(C, breakpoints, 1)

----------------------------------------------------------------------------
\* The calculator session: one call of aqi_for_concentration on any grid
\* concentration, then further calls on the next higher grid concentrations.

MaxOpt(o, p) ==
    IF o = None THEN p
    ELSE IF p = None THEN o
    ELSE IF Val(o) >= Val(p) THEN o ELSE p

CalcIdle == /\ table = "pm25" /\ conc = 0 /\ result = None /\ seen = None
            /\ pc = "off"
CatIdle == aqi = 0 /\ cat = "--" /\ cpc = "off"
DemoIdle == /\ concs = << >> /\ aqi_results = << >> /\ overall = None
            /\ dpc = "off"
GuiIdle == /\ auto_var = TRUE /\ pending = 0 /\ value_label = 0
           /\ cat_label = "--"

Init ==
    /\ table \in Tables
    /\ conc \in Grid
    /\ result = None
    /\ seen = None
    /\ pc = "call"
    /\ CatIdle /\ DemoIdle /\ GuiIdle

Call ==
    /\ pc = "call"
    /\ result' = aqi_for_concentration(conc, TableOf(table))
    /\ pc' = "done"
    /\ UNCHANGED <<table, conc, seen, catVars, demoVars, guiVars>>

Rise ==
    /\ pc = "done"
    /\ conc < MaxConc
    /\ conc' = conc + 1
    /\ seen' = MaxOpt(seen, result)
    /\ pc' = "call"
    /\ UNCHANGED <<table, result, catVars, demoVars, guiVars>>

Next == Call \/ Rise

Spec == Init /\ [][Next]_vars

----------------------------------------------------------------------------
\* Properties of the calculator session.

Done(t) == pc = "done" /\ table = t
Pm25Top == PM25_BREAKPOINTS[Len(PM25_BREAKPOINTS)][2]
InSomeRange(C, breakpoints) ==
    \E i \in 1..Len(breakpoints) : breakpoints[i][1] <= C /\ C <= breakpoints[i][2]
NotBelowSeen == seen # None /\ result # None => Val(seen) <= Val(result)

\* C1 as stated: every PM2.5 concentration of the hundredths grid in
\* [0, 500.4] has an integer index in [0, 500], not below the index of any
\* lower concentration.
C1_EveryGridConcentrationIndexed ==
    Done("pm25") /\ conc \in 0..Pm25Top =>
        /\ IsInt(result)
        /\ Val(result) \in 0..500
        /\ NotBelowSeen

\* C1 amended: a PM2.5 concentration of the hundredths grid in [0, 500.4]
\* has no index exactly when it lies strictly between two adjacent ranges,
\* which no concentration given to one decimal place does; an index is an
\* integer in [0, 500]; and the index is not below the index of any lower
\* concentration that has one.
C1_IndexedInRangeAndMonotone ==
    Done("pm25") /\ conc \in 0..Pm25Top =>
        /\ IsInt(result) <=> InSomeRange(conc, PM25_BREAKPOINTS)
        /\ conc % 10 = 0 => IsInt(result)
        /\ IsInt(result) => Val(result) \in 0..500
        /\ NotBelowSeen

\* C1 witness: the index 51 of 12.10 follows the index 50 of 12.00 across
\* the gap 12.01 .. 12.09, where there is none.
C1_Witness ==
    /\ Done("pm25") /\ conc = 1210
    /\ result = Some(51) /\ seen = Some(50)

\* C2 as stated: aqi_for_concentration(35.0, PM25_BREAKPOINTS) is 80.
C2_Pm25At35Is80 == Done("pm25") /\ conc = 3500 => result = Some(80)

\* C2 amended: aqi_for_concentration(35.0, PM25_BREAKPOINTS) is 99.
C2_Pm25At35Is99 == Done("pm25") /\ conc = 3500 => result = Some(99)

\* C2 witness: the call on 35.0 has returned an index.
C2_Witness == Done("pm25") /\ conc = 3500 /\ IsInt(result)

\* C3 as stated: aqi_for_concentration(80, PM10_BREAKPOINTS) is 72.
C3_Pm10At80Is72 == Done("pm10") /\ conc = 8000 => result = Some(72)

\* C3 amended: aqi_for_concentration(80, PM10_BREAKPOINTS) is 63.
C3_Pm10At80Is63 == Done("pm10") /\ conc = 8000 => result = Some(63)

\* C3 witness: the call on 80 has returned an index.
C3_Witness == Done("pm10") /\ conc = 8000 /\ IsInt(result)

\* C5: for either table the call returns, and it returns None exactly for
\* the concentrations that lie in none of the table's ranges.
C5_NoneIffOutsideEveryRange ==
    pc = "done" => (result = None <=> ~InSomeRange(conc, TableOf(table)))

\* C5 witness: 600 for PM2.5, above the top breakpoint, has returned None.
C5_Witness == Done("pm25") /\ conc = 60000 /\ result = None

WellFormed(breakpoints) ==
    /\ \A i \in 1..Len(breakpoints) :
          breakpoints[i][1] < breakpoints[i][2] /\ breakpoints[i][3] < breakpoints[i][4]
    /\ \A i \in 1..(Len(breakpoints) - 1) :
          /\ breakpoints[i][2] < breakpoints[i + 1][1]
          /\ breakpoints[i][4] < breakpoints[i + 1][3]

\* C8: in both tables every row has BP_lo < BP_hi and I_lo < I_hi and
\* consecutive rows are strictly ascending in BP and in I; a concentration
\* that got an index lies in exactly one range of its table.
C8_RangesDisjointAscending ==
    /\ WellFormed(PM25_BREAKPOINTS)
    /\ WellFormed(PM10_BREAKPOINTS)
    /\ pc = "done" /\ IsInt(result) =>
          Cardinality({i \in 1..Len(TableOf(table)) :
                          /\ TableOf(table)[i][1] <= conc
                          /\ conc <= TableOf(table)[i][2]}) = 1

\* C8 witness: 12.00, the upper end of the first PM2.5 range, got the index
\* of that range.
C8_Witness == Done("pm25") /\ conc = 1200 /\ result = Some(50)

----------------------------------------------------------------------------
\* aqi_category, called on any index 0 .. MaxIndex.

aqi_category_strict(a) ==
    IF a < 50 THEN "Good"
    ELSE IF a < 100 THEN "Moderate"
    ELSE IF a < 150 THEN "Unhealthy for Sensitive Groups"
    ELSE IF a < 200 THEN "Unhealthy"
    ELSE IF a < 300 THEN "Very Unhealthy"
    ELSE "Hazardous"

aqi_category(a) ==
    IF a <= 50 THEN "Good"
    ELSE IF a <= 100 THEN "Moderate"
    ELSE IF a <= 150 THEN "Unhealthy for Sensitive Groups"
    ELSE IF a <= 200 THEN "Unhealthy"
    ELSE IF a <= 300 THEN "Very Unhealthy"
    ELSE "Hazardous"

CategoryInit ==
    /\ aqi \in 0..MaxIndex
    /\ cat = "--"
    /\ cpc = "call"
    /\ CalcIdle /\ DemoIdle /\ GuiIdle

Classify ==
    /\ cpc = "call"
    /\ cat' = aqi_category(aqi)
    /\ cpc' = "done"
    /\ UNCHANGED <<aqi, calcVars, demoVars, guiVars>>

CategoryNext == Classify

SpecCategory == CategoryInit /\ [][CategoryNext]_vars

\* C4: for every index a >= 0 the band is Good iff a <= 50, Moderate iff
\* 51 <= a <= 100, Unhealthy for Sensitive Groups iff 101 <= a <= 150,
\* Unhealthy iff 151 <= a <= 200, Very Unhealthy iff 201 <= a <= 300 and
\* Hazardous iff a > 300.
C4_BandsByThreshold ==
    cpc = "done" =>
        /\ cat = "Good" <=> aqi <= 50
        /\ cat = "Moderate" <=> (51 <= aqi /\ aqi <= 100)
        /\ cat = "Unhealthy for Sensitive Groups" <=> (101 <= aqi /\ aqi <= 150)
        /\ cat = "Unhealthy" <=> (151 <= aqi /\ aqi <= 200)
        /\ cat = "Very Unhealthy" <=> (201 <= aqi /\ aqi <= 300)
        /\ cat = "Hazardous" <=> aqi > 300

\* C4 witness: the boundary 50 has been classified Good.
C4_Witness == cpc = "done" /\ aqi = 50 /\ cat = "Good"

----------------------------------------------------------------------------
\* compute_aqi_for_pollutants and the demo's overall index.  A pollutant
\* name is a sequence of characters; a mapping is a function on a set of
\* names.  A character is its code point: 'pm2.5' is <<112, 109, 50, 46, 53>>,
\* 'pm25' is <<112, 109, 50, 53>>, 'pm10' is <<112, 109, 49, 48>>.

\* The characters str.strip() removes, by code point: U+0009-000D,
\* U+001C-0020, U+0085, U+00A0, U+1680, U+2000-200A, U+2028, U+2029, U+202F,
\* U+205F, U+3000.
Whitespace ==
    (9..13) \cup (28..32) \cup {133, 160, 5760} \cup (8192..8202)
        \cup {8232, 8233, 8239, 8287, 12288}

\* str.lower on one character: exact for the ASCII code points 0 .. 127 and
\* for the characters of Whitespace, the alphabet of the names modelled.
Lower(ch) == IF 65 <= ch /\ ch <= 90 THEN ch + 32 ELSE ch

RECURSIVE LStrip(_)
LStrip(k) ==
    IF k # << >> /\ Head(k) \in Whitespace THEN LStrip(Tail(k)) ELSE k

RECURSIVE RStrip(_)
RStrip(k) ==
    IF k # << >> /\ k[Len(k)] \in Whitespace
    THEN RStrip(SubSeq(k, 1, Len(k) - 1)) ELSE k

Strip_leftOnly(k) == LStrip(k)

\* str.strip
Strip(k) == RStrip(LStrip(k))

LowerAll(k) == [i \in 1..Len(k) |-> Lower(k[i])]

\* k.strip().lower()
Normalize(k) == LowerAll(Strip(k))

compute_aqi_for_pollutants(c) ==
    [k \in DOMAIN c |->
        LET key == Normalize(k)
        IN  IF key \in {<<112, 109, 50, 46, 53>>, <<112, 109, 50, 53>>}
            THEN aqi_for_concentration(c[k], PM25_BREAKPOINTS)
            ELSE IF key = <<112, 109, 49, 48>>
            THEN aqi_for_concentration(c[k], PM10_BREAKPOINTS)
            ELSE None]

\* [v for v in aqi_results.values() if isinstance(v, int)], as a set
valid_aqis(r) == {Val(r[k]) : k \in {j \in DOMAIN r : IsInt(r[j])}}

max_min(S) == CHOOSE m \in S : \A x \in S : m <= x

\* max(valid_aqis)
max(S) == CHOOSE m \in S : \A x \in S : m >= x

\* The names and concentrations the demo is run on.
Keys ==
    { <<80, 77, 50, 46, 53>>,             \* 'PM2.5'
      <<112, 109, 50, 53, 9>>,            \* 'pm25<TAB>'
      <<32, 80, 109, 49, 48, 32>>,        \* ' Pm10 '
      <<80, 77, 49, 48>>,                 \* 'PM10'
      <<80, 77, 49, 48, 13>>,             \* 'PM10<CR>'
      <<12, 112, 109, 50, 46, 53, 12288>>, \* '<FF>pm2.5<U+3000>'
      <<67, 79>>,                         \* 'CO'
      <<112, 109, 32, 49, 48>> }          \* 'pm 10'
Values == {70, 1205, 3500, 8000, 60000}

Mappings ==
    UNION {[S -> Values] : S \in {T \in SUBSET Keys : Cardinality(T) <= MaxReadings}}

DemoInit ==
    /\ concs \in Mappings
    /\ aqi_results = << >>
    /\ overall = None
    /\ dpc = "start"
    /\ CalcIdle /\ CatIdle /\ GuiIdle

Compute ==
    /\ dpc = "start"
    /\ aqi_results' = compute_aqi_for_pollutants(concs)
    /\ dpc' = "computed"
    /\ UNCHANGED <<concs, overall, calcVars, catVars, guiVars>>

ReportOverall ==
    /\ dpc = "computed"
    /\ valid_aqis(aqi_results) # {}
    /\ overall' = Some(max(valid_aqis(aqi_results)))
    /\ dpc' = "overall"
    /\ UNCHANGED <<concs, aqi_results, calcVars, catVars, guiVars>>

ReportNone ==
    /\ dpc = "computed"
    /\ valid_aqis(aqi_results) = {}
    /\ dpc' = "none"
    /\ UNCHANGED <<concs, aqi_results, overall, calcVars, catVars, guiVars>>

DemoNext == Compute \/ ReportOverall \/ ReportNone

SpecDemo == DemoInit /\ [][DemoNext]_vars

\* The names of Keys whose trimmed, lower-cased form is 'pm2.5' or 'pm25',
\* and those whose form is 'pm10'.
Pm25Names ==
    {<<80, 77, 50, 46, 53>>, <<112, 109, 50, 53, 9>>,
     <<12, 112, 109, 50, 46, 53, 12288>>}
Pm10Names ==
    {<<32, 80, 109, 49, 48, 32>>, <<80, 77, 49, 48>>, <<80, 77, 49, 48, 13>>}

\* C6: the result has exactly the keys of the input, as given; a key whose
\* trimmed, lower-cased form is 'pm2.5' or 'pm25' maps to the PM2.5 index
\* of its value, one whose form is 'pm10' to the PM10 index, any other key
\* to None.
C6_TotalOverInputKeys ==
    dpc # "start" =>
        /\ DOMAIN aqi_results = DOMAIN concs
        /\ \A k \in DOMAIN concs :
              aqi_results[k] =
                 IF k \in Pm25Names
                 THEN aqi_for_concentration(concs[k], PM25_BREAKPOINTS)
                 ELSE IF k \in Pm10Names
                 THEN aqi_for_concentration(concs[k], PM10_BREAKPOINTS)
                 ELSE None

Sample ==
    (<<80, 77, 50, 46, 53>> :> 3500) @@ (<<80, 77, 49, 48>> :> 8000)
        @@ (<<67, 79>> :> 70)

\* C6 witness: a 'PM10<CR>' key, padded with a carriage return, has got the
\* PM10 index 63 of 80 and the unsupported 'CO' key has got None.
C6_Witness ==
    /\ dpc = "computed"
    /\ DOMAIN concs = {<<80, 77, 49, 48, 13>>, <<67, 79>>}
    /\ concs[<<80, 77, 49, 48, 13>>] = 8000
    /\ aqi_results[<<80, 77, 49, 48, 13>>] = Some(63)
    /\ aqi_results[<<67, 79>>] = None

\* C7: an overall index is produced exactly when some per-pollutant index
\* is defined, and then it is one of the defined indices and not below any
\* of them; otherwise the 'No supported pollutant concentrations' branch is
\* taken.
C7_OverallIsMaxOfDefined ==
    LET defined == {k \in DOMAIN aqi_results : IsInt(aqi_results[k])}
    IN  /\ dpc = "overall" =>
            /\ defined # {}
            /\ IsInt(overall)
            /\ \E k \in defined : aqi_results[k] = overall
            /\ \A k \in defined : Val(aqi_results[k]) <= Val(overall)
        /\ dpc = "none" => defined = {} /\ overall = None
        /\ dpc = "computed" /\ ~ENABLED ReportOverall => defined = {}
        /\ dpc = "computed" /\ ~ENABLED ReportNone => defined # {}

\* C7 witness: the demo's sample (PM2.5 35.0, PM10 80, CO 0.7) has the
\* overall index 99, the greater of 99 and 63, the CO entry ignored.
C7_Witness ==
    /\ dpc = "overall"
    /\ concs = Sample
    /\ overall = Some(99)

----------------------------------------------------------------------------
\* The gauge widget AQIMeterApp.

\* The values the AQI source may return: the docstring of AQI_Meter asks for
\* it to be replaced by a real data source, and update_meter clamps.
AQI_Meter == (0 - RawOver)..(500 + RawOver)

CATEGORIES_short ==
    << <<"Good", 0, 50>>, <<"Moderate", 51, 100>>,
       <<"Unhealthy for Sensitive", 101, 150>>, <<"Unhealthy", 151, 200>>,
       <<"Very Unhealthy", 201, 300>>, <<"Hazardous", 301, 499>> >>

\* (name, start, end); the colour is left out
CATEGORIES ==
    << <<"Good", 0, 50>>, <<"Moderate", 51, 100>>,
       <<"Unhealthy for Sensitive", 101, 150>>, <<"Unhealthy", 151, 200>>,
       <<"Very Unhealthy", 201, 300>>, <<"Hazardous", 301, 500>> >>

RECURSIVE ScanCategories(_, _)
ScanCategories(a, i) ==
    IF i > Len(CATEGORIES) THEN "Out of range"
    ELSE IF CATEGORIES[i][2] <= a /\ a <= CATEGORIES[i][3] THEN CATEGORIES[i][1]
    ELSE ScanCategories(a, i + 1)

aqi_to_category(a) == ScanCategories(a, 1)

Min2(a, b) == IF a <= b THEN a ELSE b
Max2(a, b) == IF a >= b THEN a ELSE b

\* max(0, min(500, int(aqi)))
Clamp(raw) == Max2(0, Min2(500, raw))

\* update_meter, run with `queue` callbacks waiting
update_meter(raw, queue) ==
    /\ value_label' = Clamp(raw)
    /\ cat_label' = aqi_to_category(Clamp(raw))
    /\ pending' = IF auto_var THEN queue + 1 ELSE queue

\* after __init__: auto_var is True and update_meter has run once
MeterInit ==
    /\ auto_var = TRUE
    /\ \E raw \in AQI_Meter :
          /\ value_label = Clamp(raw)
          /\ cat_label = aqi_to_category(Clamp(raw))
    /\ pending = 1
    /\ CalcIdle /\ CatIdle /\ DemoIdle

\* a click on Refresh
Refresh ==
    /\ auto_var => pending < MaxPending
    /\ \E raw \in AQI_Meter : update_meter(raw, pending)
    /\ UNCHANGED <<auto_var, calcVars, catVars, demoVars>>

\* a scheduled callback fires
TimerFire ==
    /\ pending > 0
    /\ \E raw \in AQI_Meter : update_meter(raw, pending - 1)
    /\ UNCHANGED <<auto_var, calcVars, catVars, demoVars>>

\* a click on the checkbox: the variable flips, then toggle_auto runs
toggle_auto ==
    /\ ~auto_var => pending < MaxPending
    /\ auto_var' = ~auto_var
    /\ pending' = IF auto_var' THEN pending + 1 ELSE pending
    /\ UNCHANGED <<value_label, cat_label, calcVars, catVars, demoVars>>

MeterNext == Refresh \/ TimerFire \/ toggle_auto

SpecMeter == MeterInit /\ [][MeterNext]_vars

\* C9: at most one scheduled update_meter callback is waiting at any time.
C9_AtMostOnePending == pending <= 1

BandNames == {CATEGORIES[i][1] : i \in 1..Len(CATEGORIES)}
BandOf(name) == CHOOSE i \in 1..Len(CATEGORIES) : CATEGORIES[i][1] = name

\* C10: the AQI shown is in [0, 500] and the category shown is one of the
\* six bands, never 'Out of range'; and the band of the gauge covers exactly
\* the indices 0 .. 500 that aqi_category puts in the band of the AQI shown.
C10_ShownValueInABand ==
    /\ value_label \in 0..500
    /\ cat_label \in BandNames
    /\ cat_label # "Out of range"
    /\ Cardinality(BandNames) = 6
    /\ cat_label = aqi_to_category(value_label)
    /\ \A b \in 0..500 :
          (CATEGORIES[BandOf(cat_label)][2] <= b /\ b <= CATEGORIES[BandOf(cat_label)][3])
             <=> aqi_category(b) = aqi_category(value_label)

\* C10 witness: a source value above 500 is shown as 500, Hazardous, with
\* auto-update switched off.
C10_Witness == value_label = 500 /\ cat_label = "Hazardous" /\ ~auto_var

====
